---------------------------- MODULE Spec2Model ----------------------------
(***************************************************************************)
(* Model of homework.py: a bot that polls the homework status API and      *)
(* forwards verdicts to a Telegram chat.                                   *)
(*                                                                         *)
(* Python values are modelled as follows.                                  *)
(*   None                 the string "None"                                *)
(*   a str                a TLA+ string (Russian texts are rendered in     *)
(*                        ASCII, one distinct string per distinct text)    *)
(*   a JSON payload       [top, keys, homeworks, current_date]: top is the *)
(*                        type of the top-level value, keys the set of     *)
(*                        keys of the top-level dict                       *)
(*   the 'homeworks' value  [t, s, l]: t its Python type, s its content    *)
(*                        when it is a str, l its items when it is a list  *)
(*   an exception         [type, text], text being str(exception)          *)
(*   a function result    [ok, val, exc]: val is returned when ok,         *)
(*                        exc is raised otherwise                          *)
(***************************************************************************)
EXTENDS Integers, Sequences, FiniteSets, TLC

VARIABLES
    env,                \* which of the three credentials os.getenv found
    pc,                 \* position of main: start, try, except, finally, raised
    now,                \* the wall clock, int(time()), in seconds
    current_timestamp,  \* main's local current_timestamp (0 before its assignment)
    status_non,         \* main's local status_non
    status_ok,          \* main's local status_ok
    response,           \* main's local response
    homeworks,          \* main's local homeworks
    error,              \* the exception bound by "except Exception as error"
    exc,                \* the exception propagating out of main's try statement
    log                 \* history: per iteration, the request, the HTTP answer
                        \* and the calls of bot.send_message

vars == <<env, pc, now, current_timestamp, status_non, status_ok, response,
          homeworks, error, exc, log>>

(***************************************************************************)
(* Bounds of the model.                                                    *)
(***************************************************************************)
MaxIter == 3        \* iterations of the loop that are explored
StartTime == 1      \* the clock when the process starts
MaxCursor == 1      \* number of distinct values of current_date the server supplies

(***************************************************************************)
(* Program constants.                                                      *)
(***************************************************************************)
None == "None"

HTTP_OK == 200

RETRY_TIME == 600

ErrorStatusCodes == {503}

HOMEWORK_VERDICTS ==
    [c \in {"reviewing", "rejected", "approved"} |->
        CASE c = "reviewing" -> "The work was taken for review."
          [] c = "rejected"  -> "The work was reviewed: the reviewer has remarks."
          [] c = "approved"  -> "The work was reviewed: the reviewer liked everything."]

NoExc == [type |-> "", text |-> ""]

Raise(type, text) == [ok |-> FALSE, val |-> None, exc |-> [type |-> type, text |-> text]]

Return(v) == [ok |-> TRUE, val |-> v, exc |-> NoExc]

(***************************************************************************)
(* The inputs of the program: the environment, the answers of the HTTP     *)
(* server and the outcomes of the Telegram client.                         *)
(***************************************************************************)
Envs == [PRACTICUM_TOKEN : BOOLEAN, TELEGRAM_TOKEN : BOOLEAN, TELEGRAM_CHAT_ID : BOOLEAN]

StatusCodes == {"reviewing", "rejected", "approved", "in_progress"}

Homework(s) == [homework_name |-> "hw", status |-> s]

HwList(l) == [t |-> "list", s |-> "", l |-> l]

HwScalar(t, s) == [t |-> t, s |-> s, l |-> <<>>]

HomeworkLists ==
    {<<>>}
    \cup {<<Homework(s)>> : s \in StatusCodes}
    \cup {<<Homework("reviewing"), Homework("approved")>>}

HomeworksValues ==
    {HwList(l) : l \in HomeworkLists}
    \cup {HwScalar("int", ""), HwScalar("str", "homeworks"), HwScalar("dict", "")}

\* the cursors the server supplies are later than the start of the process
Cursors == (StartTime + 1)..(StartTime + MaxCursor)

DatedLists == {<<>>, <<Homework("reviewing")>>, <<Homework("approved")>>}

Unbound == [top |-> "unbound", keys |-> {}, homeworks |-> HwScalar("absent", ""),
            current_date |-> 0]

Payloads ==
    {[top |-> "list", keys |-> {}, homeworks |-> HwScalar("absent", ""),
      current_date |-> 0]}
    \cup {[top |-> "dict", keys |-> {}, homeworks |-> HwScalar("absent", ""),
           current_date |-> 0]}
    \cup {[top |-> "dict", keys |-> {"homeworks"}, homeworks |-> h,
           current_date |-> 0] : h \in HomeworksValues}
    \cup {[top |-> "dict", keys |-> {"homeworks", "current_date"}, homeworks |-> HwList(l),
           current_date |-> d] : l \in DatedLists, d \in Cursors}

HttpAnswers ==
    {[net |-> "fail", status_code |-> HTTP_OK, body |-> "json", payload |-> Unbound]}
    \cup {[net |-> "ok", status_code |-> c, body |-> "json", payload |-> Unbound] :
            c \in ErrorStatusCodes}
    \cup {[net |-> "ok", status_code |-> HTTP_OK, body |-> "notjson", payload |-> Unbound]}
    \cup {[net |-> "ok", status_code |-> HTTP_OK, body |-> "json", payload |-> p] : p \in Payloads}

TelegramOutcomes == {"ok", "fail"}

(***************************************************************************)
(* send_message: one call of bot.send_message; a TelegramError becomes a   *)
(* SendMessageError that is raised to the caller.                          *)
(***************************************************************************)
send_message(tg) ==
    IF tg = "ok"
    THEN Return(None)
    ELSE Raise("SendMessageError", "Error while sending the message!")

(***************************************************************************)
(* get_api_answer.  "current_timestamp or int(time())" takes the clock     *)
(* when current_timestamp is 0 (main never passes None).                   *)
(***************************************************************************)
request_timestamp(ts, clock) == IF ts = 0 THEN clock ELSE ts

get_api_answer(http) ==
    IF http.net = "fail"
    THEN \* requests.get raised: the handler of line 73 formats
         \* response.status_code, and response was never assigned
         Raise("UnboundLocalError",
               "local variable 'response' referenced before assignment")
    ELSE IF http.status_code # HTTP_OK
    THEN \* the SendMessageError of line 66 is caught at line 73
         Raise("RequestError",
               "[API request] Status: " \o ToString(http.status_code)
               \o ",Got the error: [API request]Status other than HTTP 200:"
               \o ToString(http.status_code))
    ELSE IF http.body = "notjson"
    THEN \* line 72 builds JSONDecodeError with one argument of three
         Raise("TypeError",
               "__init__() missing 2 required positional arguments: 'doc' and 'pos'")
    ELSE Return(http.payload)

(***************************************************************************)
(* check_response.  "homeworks not in response" hashes homeworks to look   *)
(* it up among the keys of response: a list or a dict is unhashable.       *)
(***************************************************************************)
Hashable(h) == h.t \notin {"list", "dict"}

IsKeyOf(h, resp) == h.t = "str" /\ h.s \in resp.keys

\* check_response without the membership test of lines 88-89
check_response_NoMembershipTest(resp) ==
    IF resp.top # "dict"
    THEN Raise("TypeError", "list indices must be integers or slices, not str")
    ELSE IF "homeworks" \notin resp.keys
    THEN Raise("KeyError", "'homeworks'")
    ELSE IF resp.homeworks.t # "list"
    THEN Raise("TypeError", "[Correctness] Type error.")
    ELSE Return(resp.homeworks.l)

\* check_response with the text of the unhashable-type error naming the length
\* of the value
check_response_ReportsLength(resp) ==
    IF resp.top # "dict"
    THEN Raise("TypeError", "list indices must be integers or slices, not str")
    ELSE IF "homeworks" \notin resp.keys
    THEN Raise("KeyError", "'homeworks'")
    ELSE IF ~Hashable(resp.homeworks)
    THEN Raise("TypeError", "unhashable type: '" \o resp.homeworks.t \o "' of length "
                            \o ToString(Len(resp.homeworks.l)))
    ELSE IF ~IsKeyOf(resp.homeworks, resp)
    THEN Raise("KeyError", "'[Correctness] key error'")
    ELSE IF resp.homeworks.t # "list"
    THEN Raise("TypeError", "[Correctness] Type error.")
    ELSE Return(resp.homeworks.l)

check_response(resp) ==
    IF resp.top # "dict"
    THEN Raise("TypeError", "list indices must be integers or slices, not str")
    ELSE IF "homeworks" \notin resp.keys
    THEN Raise("KeyError", "'homeworks'")
    ELSE IF ~Hashable(resp.homeworks)
    THEN Raise("TypeError", "unhashable type: '" \o resp.homeworks.t \o "'")
    ELSE IF ~IsKeyOf(resp.homeworks, resp)
    THEN Raise("KeyError", "'[Correctness] key error'")
    ELSE IF resp.homeworks.t # "list"
    THEN Raise("TypeError", "[Correctness] Type error.")
    ELSE Return(resp.homeworks.l)

(***************************************************************************)
(* parse_status.  main calls it with the whole (empty) list and with one   *)
(* homework: the argument is [t, l, d], t its Python type, l the items of  *)
(* a list, d the dict.                                                     *)
(***************************************************************************)
PyList(l) == [t |-> "list", l |-> l, d |-> <<>>]

PyDict(d) == [t |-> "dict", l |-> <<>>, d |-> d]

PyLen(v) == IF v.t = "list" THEN Len(v.l) ELSE Cardinality(DOMAIN v.d)

NotUnderReview == "[Status] The project is not under review: []"

VerdictMessage(name, verdict) ==
    "The review status of the work \"" \o name \o "\" has changed." \o verdict

parse_status(homework) ==
    IF PyLen(homework) = 0
    THEN Return(NotUnderReview)
    ELSE IF homework.t = "list"
    THEN Raise("TypeError", "list indices must be integers or slices, not str")
    ELSE IF "homework_name" \notin DOMAIN homework.d
    THEN Raise("KeyError", "'homework_name'")
    ELSE IF "status" \notin DOMAIN homework.d
    THEN Raise("KeyError", "'status'")
    ELSE IF homework.d.status \in DOMAIN HOMEWORK_VERDICTS
    THEN Return(VerdictMessage(homework.d.homework_name,
                               HOMEWORK_VERDICTS[homework.d.status]))
    ELSE Raise("KeyError", "'[Status] status (key) error of homework'")

(***************************************************************************)
(* check_tokens returns True when all three credentials are set and falls  *)
(* off its end, returning None, otherwise; main only tests its truth.      *)
(***************************************************************************)
check_tokens_any(e) ==
    IF e.PRACTICUM_TOKEN \/ e.TELEGRAM_TOKEN \/ e.TELEGRAM_CHAT_ID
    THEN "True"
    ELSE None

check_tokens(e) ==
    IF e.PRACTICUM_TOKEN /\ e.TELEGRAM_TOKEN /\ e.TELEGRAM_CHAT_ID
    THEN "True"
    ELSE None

Truthy(v) == v \notin {None, "False"}

(***************************************************************************)
(* main, lines 149-162: what the try block does with the list that         *)
(* check_response returned.  sn and so are status_non and status_ok, tg    *)
(* the outcome of bot.send_message should it be called.  The result holds  *)
(* the new values of the two locals, the calls of bot.send_message made    *)
(* and the exception raised (NoExc when the block runs to its end).        *)
(***************************************************************************)
Message(kind, text) == [kind |-> kind, text |-> text]

Sent(msg, tg) == <<[msg |-> msg, ok |-> (tg = "ok")]>>

EmptyStateMessage == Message("empty", "The work is not under review: []")

StatusMessage(code) == Message("status", HOMEWORK_VERDICTS[code])

ErrorMessage(e) == Message("error", "Program failure: " \o e.text)

Outcome(sn, so, sent, e) == [status_non |-> sn, status_ok |-> so, sent |-> sent, exc |-> e]

handle_homeworks(sn, so, hws, tg) ==
    IF Len(hws) = 0
    THEN LET ps == parse_status(PyList(hws))
         IN  IF ~ps.ok THEN Outcome(sn, so, <<>>, ps.exc)
             ELSE IF ps.val # sn
             THEN Outcome(ps.val, so, Sent(EmptyStateMessage, tg), send_message(tg).exc)
             ELSE Outcome(sn, so, <<>>, NoExc)
    ELSE IF "status" \notin DOMAIN hws[1]
    THEN Outcome(sn, so, <<>>, [type |-> "KeyError", text |-> "'status'"])
    ELSE IF hws[1].status \in DOMAIN HOMEWORK_VERDICTS
    THEN IF hws[1].status # so
         THEN LET ps == parse_status(PyDict(hws[1]))
              IN  IF ~ps.ok THEN Outcome(sn, hws[1].status, <<>>, ps.exc)
                  ELSE Outcome(sn, hws[1].status,
                               Sent(StatusMessage(hws[1].status), tg),
                               send_message(tg).exc)
         ELSE Outcome(sn, so, <<>>, NoExc)
    ELSE Outcome(sn, so, <<>>, NoExc)

(***************************************************************************)
(* main, lines 137-144: the check of the credentials and the start of the  *)
(* loop.                                                                   *)
(***************************************************************************)
Start ==
    /\ pc = "start"
    /\ IF ~Truthy(check_tokens(env))
       THEN /\ pc' = "raised"
            /\ exc' = [type |-> "NonTokenError", text |-> "The tokens are missing"]
            /\ UNCHANGED <<current_timestamp, status_non, status_ok>>
       ELSE /\ pc' = "try"
            /\ current_timestamp' = now
            /\ status_non' = None
            /\ status_ok' = None
            /\ UNCHANGED exc
    /\ UNCHANGED <<env, now, response, homeworks, error, log>>

(***************************************************************************)
(* main, lines 146-162: the try block of one iteration.  http is the       *)
(* answer of the server to the request, tg the outcome of the Telegram     *)
(* client.  An exception takes main to its handler.                        *)
(***************************************************************************)
Iteration(ts, http, sent) == [from_date |-> ts, http |-> http, sent |-> sent]

\* TryBody with the assignment of line 158 made before the response is checked
TryBody_AssignsEarly(http, tg) ==
    /\ pc = "try"
    /\ Len(log) < MaxIter
    /\ LET ts  == request_timestamp(current_timestamp, now)
           api == get_api_answer(http)
       IN  IF ~api.ok
           THEN /\ pc' = "except"
                /\ error' = api.exc
                /\ log' = Append(log, Iteration(ts, http, <<>>))
                /\ UNCHANGED <<response, homeworks, status_non, status_ok>>
           ELSE LET chk   == check_response(api.val)
                    early == IF api.val.homeworks.t = "list" /\ api.val.homeworks.l # <<>>
                             THEN api.val.homeworks.l[1].status
                             ELSE status_ok
                IN  /\ response' = api.val
                    /\ IF ~chk.ok
                       THEN /\ pc' = "except"
                            /\ error' = chk.exc
                            /\ log' = Append(log, Iteration(ts, http, <<>>))
                            /\ status_ok' = early
                            /\ UNCHANGED <<homeworks, status_non>>
                       ELSE LET out == handle_homeworks(status_non, early, chk.val, tg)
                            IN  /\ homeworks' = chk.val
                                /\ status_non' = out.status_non
                                /\ status_ok' = out.status_ok
                                /\ log' = Append(log, Iteration(ts, http, out.sent))
                                /\ error' = out.exc
                                /\ pc' = IF out.exc = NoExc THEN "finally" ELSE "except"
    /\ UNCHANGED <<env, now, current_timestamp, exc>>

TryBody(http, tg) ==
    /\ pc = "try"
    /\ Len(log) < MaxIter
    /\ LET ts  == request_timestamp(current_timestamp, now)
           api == get_api_answer(http)
       IN  IF ~api.ok
           THEN /\ pc' = "except"
                /\ error' = api.exc
                /\ log' = Append(log, Iteration(ts, http, <<>>))
                /\ UNCHANGED <<response, homeworks, status_non, status_ok>>
           ELSE LET chk == check_response(api.val)
                IN  /\ response' = api.val
                    /\ IF ~chk.ok
                       THEN /\ pc' = "except"
                            /\ error' = chk.exc
                            /\ log' = Append(log, Iteration(ts, http, <<>>))
                            /\ UNCHANGED <<homeworks, status_non, status_ok>>
                       ELSE LET out == handle_homeworks(status_non, status_ok, chk.val, tg)
                            IN  /\ homeworks' = chk.val
                                /\ status_non' = out.status_non
                                /\ status_ok' = out.status_ok
                                /\ log' = Append(log, Iteration(ts, http, out.sent))
                                /\ error' = out.exc
                                /\ pc' = IF out.exc = NoExc THEN "finally" ELSE "except"
    /\ UNCHANGED <<env, now, current_timestamp, exc>>

(***************************************************************************)
(* main, lines 163-166: the handler sends the failure to the chat; an      *)
(* exception of send_message leaves the handler and, after the finally     *)
(* block, main.                                                            *)
(***************************************************************************)
ExceptHandler(tg) ==
    /\ pc = "except"
    /\ LET message == ErrorMessage(error)
           last    == log[Len(log)]
       IN  log' = [log EXCEPT ![Len(log)] =
                      Iteration(last.from_date, last.http, last.sent \o Sent(message, tg))]
    /\ exc' = send_message(tg).exc
    /\ error' = NoExc
    /\ pc' = "finally"
    /\ UNCHANGED <<env, now, current_timestamp, status_non, status_ok, response, homeworks>>

(***************************************************************************)
(* main, lines 167-168: sleep(RETRY_TIME), then the next iteration, or the *)
(* exception that is propagating leaves main.                              *)
(***************************************************************************)
Finally_SleepsUnlessRaising ==
    /\ pc = "finally"
    /\ now' = IF exc = NoExc THEN now + RETRY_TIME ELSE now
    /\ pc' = IF exc = NoExc THEN "try" ELSE "raised"
    /\ UNCHANGED <<env, current_timestamp, status_non, status_ok, response, homeworks,
                   error, exc, log>>

Finally ==
    /\ pc = "finally"
    /\ now' = now + RETRY_TIME
    /\ pc' = IF exc = NoExc THEN "try" ELSE "raised"
    /\ UNCHANGED <<env, current_timestamp, status_non, status_ok, response, homeworks,
                   error, exc, log>>

Init ==
    /\ env \in Envs
    /\ pc = "start"
    /\ now = StartTime
    /\ current_timestamp = 0
    /\ status_non = None
    /\ status_ok = None
    /\ response = Unbound
    /\ homeworks = <<>>
    /\ error = NoExc
    /\ exc = NoExc
    /\ log = <<>>

Next ==
    \/ Start
    \/ \E http \in HttpAnswers, tg \in TelegramOutcomes : TryBody(http, tg)
    \/ \E tg \in TelegramOutcomes : ExceptHandler(tg)
    \/ Finally

Spec == Init /\ [][Next]_vars

TypeOK ==
    /\ pc \in {"start", "try", "except", "finally", "raised"}
    /\ status_ok \in {None} \cup StatusCodes
    /\ Len(log) <= MaxIter

(***************************************************************************)
(* What the history records, in the words of the specification.            *)
(***************************************************************************)
Last == log[Len(log)]

\* the server answered 200 with a body that parses
IsJson(http) == http.net = "ok" /\ http.status_code = HTTP_OK /\ http.body = "json"

\* a mapping with a 'homeworks' key whose value is a sequence
WellFormed(p) == p.top = "dict" /\ "homeworks" \in p.keys /\ p.homeworks.t = "list"

ValidResponse(http) == IsJson(http) /\ WellFormed(http.payload)

Records(http) == http.payload.homeworks.l

EmptyResponse(http) == ValidResponse(http) /\ Records(http) = <<>>

NonEmptyResponse(http) == ValidResponse(http) /\ Records(http) # <<>>

FirstStatus(http) == Records(http)[1].status

KnownStatus(http) ==
    NonEmptyResponse(http) /\ FirstStatus(http) \in DOMAIN HOMEWORK_VERDICTS

UnknownStatus(http) ==
    NonEmptyResponse(http) /\ FirstStatus(http) \notin DOMAIN HOMEWORK_VERDICTS

SuppliesCursor(http) == ValidResponse(http) /\ "current_date" \in http.payload.keys

\* the failure of fetch or validation on an answer, NoExc when there is none
FailureOf(http) ==
    IF ~get_api_answer(http).ok THEN get_api_answer(http).exc
    ELSE check_response(http.payload).exc

Kinds(sent) == [k \in DOMAIN sent |-> sent[k].msg.kind]

HasKind(sent, kind) == \E k \in DOMAIN sent : sent[k].msg.kind = kind

SendFailed(sent) == \E k \in DOMAIN sent : ~sent[k].ok

AllPresent(e) == \A k \in DOMAIN e : e[k]

LoopEntered == pc \in {"try", "except", "finally"} \/ log # <<>>

\* the step that runs the try block of an iteration
TryStep == pc = "try" /\ pc' # "try"

\* the step that ends an iteration
FinallyStep == pc = "finally" /\ pc' # "finally"

C2_TransitionNotified ==
    [][(TryStep /\ KnownStatus(Last'.http) /\ FirstStatus(Last'.http) # status_ok)
        => (/\ status_ok' = FirstStatus(Last'.http)
            /\ Len(Last'.sent) = 1
            /\ Last'.sent[1].msg = StatusMessage(FirstStatus(Last'.http)))]_vars

(***************************************************************************)
(* C3.  Error de-duplication: of two consecutive iterations that fail with *)
(* the same error text, the second one sends no error notification.        *)
(***************************************************************************)
C3_ErrorDeduplicated ==
    \A i \in 1..(Len(log) - 1) :
        (/\ FailureOf(log[i].http) # NoExc
         /\ FailureOf(log[i + 1].http).text = FailureOf(log[i].http).text)
        => ~HasKind(log[i + 1].sent, "error")

(***************************************************************************)
(* C4.  A failed notification never aborts the loop: main is never left    *)
(* by the failure of a send.                                               *)
(***************************************************************************)
C4_SendFailureContained ==
    ~(pc = "raised" /\ exc.type = "SendMessageError")

(***************************************************************************)
(* C5.  Recoverable errors never terminate the loop: an iteration that     *)
(* failed in fetch or validation has turned the failure into a failure     *)
(* message once its handler is done, and main is never left once the loop  *)
(* was entered.                                                            *)
(***************************************************************************)
C5_LoopNeverExits ==
    /\ (log # <<>> /\ pc # "except" /\ FailureOf(Last.http) # NoExc)
           => HasKind(Last.sent, "error")
    /\ LoopEntered => pc # "raised"

(***************************************************************************)
(* C6.  check_response returns the value under 'homeworks' exactly when    *)
(* the response is a mapping with a 'homeworks' key whose value is a       *)
(* sequence, and fails otherwise; checked on every response main passes    *)
(* to it.                                                                  *)
(***************************************************************************)
C6_ValidationResult ==
    response # Unbound =>
        /\ check_response(response).ok <=> WellFormed(response)
        /\ WellFormed(response) =>
               check_response(response).val = response.homeworks.l

(***************************************************************************)
(* C7.  Empty-state handling: an iteration whose response has an empty     *)
(* homework list never takes the error path and sends no error             *)
(* notification, and of two consecutive iterations with an empty list the  *)
(* second sends no notification.                                           *)
(***************************************************************************)
C7_EmptyIsNotAnError ==
    /\ \A i \in 1..Len(log) :
          EmptyResponse(log[i].http) => ~HasKind(log[i].sent, "error")
    /\ (pc = "except" => ~EmptyResponse(Last.http))
    /\ \A i \in 1..(Len(log) - 1) :
          (EmptyResponse(log[i].http) /\ EmptyResponse(log[i + 1].http))
          => log[i + 1].sent = <<>>

(***************************************************************************)
(* C8.  Unknown-code rejection: an iteration whose non-empty response has  *)
(* a first record with a status code outside the verdict table goes to the *)
(* handler of main, is followed by the next iteration, and leaves          *)
(* status_ok unchanged.                                                    *)
(***************************************************************************)
C8_UnknownCodeRejected ==
    [][/\ (TryStep /\ UnknownStatus(Last'.http))
           => (pc' = "except" /\ status_ok' = status_ok)
       /\ (pc \in {"except", "finally"} /\ UnknownStatus(Last.http))
           => (pc' # "raised" /\ status_ok' = status_ok)]_vars

(***************************************************************************)
(* C9.  Fatal startup precondition: when one of the three credentials is   *)
(* missing, main ends with NonTokenError before the loop, and no request   *)
(* and no send is ever made.                                               *)
(***************************************************************************)
C9_FatalStartup ==
    ~AllPresent(env) =>
        /\ pc \in {"start", "raised"}
        /\ pc = "raised" => exc.type = "NonTokenError"
        /\ log = <<>>

C9_Witness == ~AllPresent(env) /\ pc = "raised" /\ log = <<>>

(***************************************************************************)
(* C10.  Cursor advance: the request that follows an iteration whose       *)
(* response supplies current_date uses that value as from_date; the        *)
(* request that follows any other iteration uses the same from_date again. *)
(***************************************************************************)
C10_CursorAdvance ==
    \A i \in 1..(Len(log) - 1) :
        log[i + 1].from_date =
            IF SuppliesCursor(log[i].http)
            THEN log[i].http.payload.current_date
            ELSE log[i].from_date

IterationsEnded == IF pc \in {"except", "finally"} THEN Len(log) - 1 ELSE Len(log)

C12_SleepAfterEveryIteration == now = StartTime + RETRY_TIME * IterationsEnded

\* an iteration that failed while sending has slept before main was left
C12_Witness ==
    /\ pc = "raised"
    /\ log # <<>>
    /\ SendFailed(Last.sent)
    /\ now = StartTime + RETRY_TIME * Len(log)

(***************************************************************************)
(* C13.  Only the first record is inspected: the try block of an           *)
(* iteration whose valid response is not empty ends exactly as it would,   *)
(* from the same status_non and status_ok, on the response cut down to its *)
(* first record: the same position of main, the same exception for the     *)
(* handler (whose notification is made of it alone), the same two locals   *)
(* and the same notifications.                                             *)
(***************************************************************************)
FirstOnly(http) == [http EXCEPT !.payload.homeworks.l = <<@[1]>>]

\* what lines 147-162 make of an answer, from the functions they call
TryResult(sn, so, http, tg) ==
    IF FailureOf(http) # NoExc
    THEN [pc |-> "except", error |-> FailureOf(http), status_non |-> sn,
          status_ok |-> so, sent |-> <<>>]
    ELSE LET out == handle_homeworks(sn, so, Records(http), tg)
         IN  [pc |-> IF out.exc = NoExc THEN "finally" ELSE "except",
              error |-> out.exc, status_non |-> out.status_non,
              status_ok |-> out.status_ok, sent |-> out.sent]

C13_OnlyFirstRecord ==
    [][(TryStep /\ NonEmptyResponse(Last'.http)) =>
        \E tg \in TelegramOutcomes :
            [pc |-> pc', error |-> error', status_non |-> status_non',
             status_ok |-> status_ok', sent |-> Last'.sent]
            = TryResult(status_non, status_ok, FirstOnly(Last'.http), tg)]_vars

\* an iteration whose response has two records has been handled
C13_Witness ==
    /\ log # <<>>
    /\ pc = "finally"
    /\ NonEmptyResponse(Last.http)
    /\ Len(Records(Last.http)) > 1
    /\ Len(Last.sent) = 1

(***************************************************************************)
(* C14.  A delivery failure is never retried within the same iteration:    *)
(* no call of bot.send_message follows a failed one in an iteration, and   *)
(* an iteration calls it at most once.                                     *)
(***************************************************************************)
C14_NoRetryInIteration ==
    \A i \in 1..Len(log) :
        /\ Len(log[i].sent) <= 1
        /\ \A k \in DOMAIN log[i].sent : ~log[i].sent[k].ok => k = Len(log[i].sent)

\* the only send of an iteration failed and the iteration is over
C14_Witness ==
    /\ log # <<>>
    /\ pc \in {"finally", "raised"}
    /\ Len(Last.sent) = 1
    /\ ~Last.sent[1].ok

(***************************************************************************)
(* C16.  Typed fetch failures: get_api_answer fails with a transport-kind  *)
(* error when the GET fails at network level, with an error that carries   *)
(* the HTTP status code when the status is not 200, and with a             *)
(* malformed-payload error when the body does not parse; the three kinds   *)
(* differ, and no payload reaches main in any of the three cases.          *)
(***************************************************************************)
TransportKinds == {"RequestError", "ConnectionError", "Timeout", "RequestException"}

StatusKinds == {"UnexpectedStatusError", "SendMessageError", "HTTPError"}

MalformedKinds == {"JSONDecodeError", "ValueError"}

C16_TypedFetchFailures ==
    [][(TryStep /\ ~IsJson(Last'.http)) =>
        /\ pc' = "except"
        /\ response' = response
        /\ Last'.http.net = "fail" => error'.type \in TransportKinds
        /\ (Last'.http.net = "ok" /\ Last'.http.status_code # HTTP_OK) =>
              /\ error'.type \in StatusKinds \cup TransportKinds
              /\ error'.text = "[API request] Status: " \o ToString(Last'.http.status_code)
                               \o ",Got the error: [API request]Status other than HTTP 200:"
                               \o ToString(Last'.http.status_code)
        /\ (Last'.http.net = "ok" /\ Last'.http.status_code = HTTP_OK) =>
              error'.type \in MalformedKinds]_vars

(***************************************************************************)
(* C17.  check_tokens returns False when at least one of the three         *)
(* credentials is missing or empty and True when all three are present;    *)
(* checked on the environment main has called it with.                     *)
(***************************************************************************)
C17_CheckTokensResult ==
    pc # "start" =>
        check_tokens(env) = IF AllPresent(env) THEN "True" ELSE "False"

(***************************************************************************)
(* C19.  status_ok is None or a key of HOMEWORK_VERDICTS in every state,   *)
(* and no step takes it back to None once it holds a key.                  *)
(***************************************************************************)
C19_StatusOkDomain ==
    /\ [](status_ok \in {None} \cup DOMAIN HOMEWORK_VERDICTS)
    /\ [][status_ok # None => status_ok' # None]_vars

\* an iteration on an unknown status code whose error send failed has left main
C19_Witness ==
    /\ log # <<>>
    /\ pc = "raised"
    /\ UnknownStatus(Last.http)
    /\ SendFailed(Last.sent)
    /\ status_ok = None

=============================================================================
